---- MODULE Spec2Model ----
(***************************************************************************)
(* Tag mutation engine of amalyzer (src/main.cpp): the album-prefix codec  *)
(* (cleanAlbumPrefix), the analysis-tag writer (writeTags), the cover      *)
(* operations (embedCover, removeCover), tag removal (removeTags,          *)
(* removeAllTags), tag editing (applyTagOperations), the operation blocks  *)
(* of main and the file loop in front of them, over a model of the TagLib  *)
(* tag of one audio file.                                                  *)
(*                                                                         *)
(* Strings are TLA+ strings; TLC evaluates Len, \o and SubSeq on them, so  *)
(* the string algorithms are modelled character by character. A std::string*)
(* is a string of bytes and a TagLib::String a string of characters; the   *)
(* bytes and characters above 0x7F are spelled with the stand-ins of       *)
(* HighChars, which no other text of the model uses.                       *)
(***************************************************************************)
EXTENDS Integers, Sequences, FiniteSets, TLC

(***************************************************************************)
(* Bounds of the model.                                                    *)
(***************************************************************************)
\* longest list of ' | '-separated segments of an album text drawn as input
MaxSegs == 5
\* longest -put request list drawn as input
MaxReqLen == 3
\* number of writeTags calls applied to one file
MaxWrites == 2

(***************************************************************************)
(* std::string primitives.                                                 *)
(***************************************************************************)
\* std::string::npos, as a position no string has (positions are 1-based)
npos == 0

CharAt(s, i) == SubSeq(s, i, i)

\* s.substr(pos) for a 0-based C++ offset pos = from - 1
SubstrFrom(s, from) == SubSeq(s, from, Len(s))

\* s.find(pat): the first 1-based position where pat occurs in s, or npos
Find(s, pat) ==
    LET hits == {i \in 1..(Len(s) - Len(pat) + 1) : SubSeq(s, i, i + Len(pat) - 1) = pat}
    IN  IF hits = {} THEN npos ELSE CHOOSE i \in hits : \A j \in hits : i <= j

Digits == {"0", "1", "2", "3", "4", "5", "6", "7", "8", "9"}

Letters ==
    {"A", "B", "C", "D", "E", "F", "G", "H", "I", "J", "K", "L", "M",
     "N", "O", "P", "Q", "R", "S", "T", "U", "V", "W", "X", "Y", "Z",
     "a", "b", "c", "d", "e", "f", "g", "h", "i", "j", "k", "l", "m",
     "n", "o", "p", "q", "r", "s", "t", "u", "v", "w", "x", "y", "z"}

\* The bytes and characters 0x80..0xFF the model uses, each spelled with an
\* ASCII stand-in:  % is E9 (e acute),  @ is C3,  & is A9,  ^ is C2,  $ is 83,
\* ! is 82. As a byte of a std::string and as a Latin-1 character of a
\* TagLib::String a value has the same stand-in.
HighChars == {"%", "@", "&", "^", "$", "!"}

\* the two UTF-8 bytes of a character U+0080..U+00FF: 0xC0 | (c >> 6), then
\* 0x80 | (c & 0x3F)
Utf8Of(c) ==
    IF c = "%" THEN "@&"
    ELSE IF c = "@" THEN "@$"
    ELSE IF c = "&" THEN "^&"
    ELSE IF c = "$" THEN "^$"
    ELSE IF c = "^" THEN "@!"
    ELSE "^!"

RECURSIVE toCString(_)
\* TagLib::String::toCString(true): the text as UTF-8 bytes
toCString(str) ==
    IF str = "" THEN ""
    ELSE (IF CharAt(str, 1) \in HighChars THEN Utf8Of(CharAt(str, 1)) ELSE CharAt(str, 1))
             \o toCString(SubSeq(str, 2, Len(str)))

\* TagLib::String(const std::string &s, Type t = Latin1), the conversion a
\* std::string argument of setAlbum and setComment goes through: every byte
\* becomes the character of the same value
StringFromLatin1(bytes) == bytes

VARIABLES
    isalnumHigh   \* what ::isalnum returns for a byte above 0x7F in this build

\* ::isalnum(c) in the "C" locale. The lambda passes a char: where char is
\* signed a byte above 0x7F is a negative argument, which ::isalnum leaves
\* undefined.
isalnum(c) == c \in Digits \cup Letters \/ (c \in HighChars /\ isalnumHigh)

\* the lambda given to std::all_of in cleanAlbumPrefix
IsPrefixChar(c) == isalnum(c) \/ c = "." \/ c = "#"

\* std::all_of(prefix.begin(), prefix.end(), lambda): true on the empty range
AllPrefixChars(prefix) == \A i \in 1..Len(prefix) : IsPrefixChar(CharAt(prefix, i))

(***************************************************************************)
(* cleanAlbumPrefix (src/main.cpp:1333-1358).                              *)
(***************************************************************************)
\* the delimiter searched by temp.find(" | ")
Delim == " | "

\* the loop bound of `while (count < 3)`
MaxPrefixes == 3

RECURSIVE CleanLoopNoBound(_, _)
\* mutant of CleanLoop: the loop without its `count < 3` bound
CleanLoopNoBound(temp, count) ==
    LET pos == Find(temp, Delim)
    IN  IF pos = npos
        THEN temp
        ELSE IF AllPrefixChars(SubSeq(temp, 1, pos - 1))
             THEN CleanLoopNoBound(SubstrFrom(temp, pos + 3), count + 1)
             ELSE temp

RECURSIVE CleanLoop(_, _)
\* the while loop of cleanAlbumPrefix, from the state (temp, count)
CleanLoop(temp, count) ==
    IF ~(count < MaxPrefixes)
    THEN temp
    ELSE LET pos == Find(temp, Delim)
         IN  IF pos = npos
             THEN temp
             ELSE LET prefix == SubSeq(temp, 1, pos - 1)
                  IN  IF AllPrefixChars(prefix)
                      THEN CleanLoop(SubstrFrom(temp, pos + 3), count + 1)
                      ELSE temp

cleanAlbumPrefix(albumStr) ==
    IF albumStr = "" THEN "" ELSE CleanLoop(albumStr, 0)

(***************************************************************************)
(* Album texts drawn as inputs: lists of segments joined by the delimiter. *)
(***************************************************************************)
RECURSIVE Join(_, _)
\* the elements of the list parts, separated by sep
Join(parts, sep) ==
    IF Len(parts) = 0 THEN ""
    ELSE IF Len(parts) = 1 THEN parts[1]
    ELSE parts[1] \o sep \o Join(Tail(parts), sep)

\* segment texts, as bytes: the empty segment, an analysis-like token, plain
\* text, and the UTF-8 bytes of a word that ends in e acute
SegTexts == {"", "C#.7", "Greatest Hits", "Caf@&"}

SeqsUpTo(S, n) == UNION {[1..k -> S] : k \in 0..n}

Range(f) == {f[i] : i \in DOMAIN f}

\* the album texts drawn as inputs, each with the segments it was joined from
AlbumSegs == SeqsUpTo(SegTexts, MaxSegs)

(***************************************************************************)
(* Amalyzer::analyze (src/unnamed/part_001:61-139): the AnalysisResult.    *)
(* bpm and energy are kept in hundredths; energy is already rounded to     *)
(* hundredths by analyze (std::round(rmsAvg * 100.0) / 100.0).             *)
(***************************************************************************)
camelot_keys ==
    <<"8B", "9B", "10B", "11B", "12B", "1B", "2B", "3B", "4B", "5B", "6B", "7B",
      "5A", "6A", "7A", "8A", "9A", "10A", "11A", "12A", "1A", "2A", "3A", "4A">>

\* result.keyCamelot as analyze sets it from analyzer->keyIndex
KeyCamelot(keyIndex) ==
    IF keyIndex >= 0 /\ keyIndex < 24 THEN camelot_keys[keyIndex + 1] ELSE "???"

AnalysisOf(bpm100, energy100, keyIndex) ==
    [bpm |-> bpm100, energy |-> energy100, keyCamelot |-> KeyCamelot(keyIndex)]

\* the analyses drawn as inputs: a detected track (bpm 128, energy 0.73, key
\* 8A), a track with no tempo and no key, and a silent track
Results == {AnalysisOf(12800, 73, 15), AnalysisOf(0, 5, -1), AnalysisOf(0, 0, 15)}

\* and, for the prefix builder alone, a tempo half-way between two integers
\* with the highest energy
AllResults == Results \cup {AnalysisOf(9750, 100, 17)}

(***************************************************************************)
(* writeTags, the part before the file is opened (src/main.cpp:1378-1420). *)
(***************************************************************************)
DigitChar(d) == SubSeq("0123456789", d + 1, d + 1)

RECURSIVE NatToStr(_)
\* operator<< of a non-negative whole number
NatToStr(n) == IF n < 10 THEN DigitChar(n) ELSE NatToStr(n \div 10) \o DigitChar(n % 10)

\* std::round on a non-negative value given in hundredths: half away from zero
Round(x100) == (x100 + 50) \div 100

\* bpmSs << std::fixed << std::setprecision(0) << std::round(res.bpm)
BpmStr(res) == NatToStr(Round(res.bpm))

\* energySs << std::fixed << std::setprecision(2) << res.energy
EnergyStr(res) ==
    NatToStr(res.energy \div 100) \o "." \o DigitChar((res.energy % 100) \div 10)
        \o DigitChar(res.energy % 10)

KeyStr(res) == res.keyCamelot

\* std::find(tagsToWrite.begin(), tagsToWrite.end(), name) != tagsToWrite.end()
Requested(tagsToWrite, name) == \E i \in 1..Len(tagsToWrite) : tagsToWrite[i] = name

\* the early return: nothing requested, or no analysis to write
SkipsWrite(res, tagsToWrite) ==
    Len(tagsToWrite) = 0 \/ (res.bpm < 10 /\ res.energy < 1)

\* mutant of BuildParts: one part per element of the request, in request order
BuildPartsInRequestOrder(res, tagsToWrite) ==
    LET text(name) == IF name = "bpm" THEN <<BpmStr(res)>>
                      ELSE IF name = "energy" THEN <<EnergyStr(res)>>
                      ELSE IF name = "key" THEN <<KeyStr(res)>>
                      ELSE <<>>
        F[i \in 0..Len(tagsToWrite)] ==
            IF i = 0 THEN <<>> ELSE F[i - 1] \o text(tagsToWrite[i])
    IN  F[Len(tagsToWrite)]

\* the vector parts
BuildParts(res, tagsToWrite) ==
    (IF Requested(tagsToWrite, "bpm") THEN <<BpmStr(res)>> ELSE <<>>)
        \o (IF Requested(tagsToWrite, "energy") THEN <<EnergyStr(res)>> ELSE <<>>)
        \o (IF Requested(tagsToWrite, "key") THEN <<KeyStr(res)>> ELSE <<>>)

\* commentStr: "BPM: 128 | Key: 8A | Energy: 0.85", the last " | " removed
CommentStr(res, tagsToWrite) ==
    LET c == (IF Requested(tagsToWrite, "bpm") THEN "BPM: " \o BpmStr(res) \o " | " ELSE "")
                 \o (IF Requested(tagsToWrite, "key") THEN "Key: " \o KeyStr(res) \o " | " ELSE "")
                 \o (IF Requested(tagsToWrite, "energy")
                     THEN "Energy: " \o EnergyStr(res) \o " | " ELSE "")
    IN  IF Len(c) > 3 THEN SubSeq(c, 1, Len(c) - 3) ELSE c

\* newPrefix: the parts joined by " | "
NewPrefix(parts) == Join(parts, " | ")

\* the names a -put list is drawn from: the three kinds and a name writeTags ignores
TagNames == {"bpm", "energy", "key", "album"}

\* -put lists of any order and multiplicity
Requests == SeqsUpTo(TagNames, MaxReqLen)

\* one -put list per set of kinds, and one that names no kind
SubsetRequests ==
    {<<"bpm">>, <<"energy">>, <<"key">>, <<"bpm", "energy">>, <<"key", "bpm">>,
     <<"energy", "key">>, <<"key", "energy", "bpm">>, <<"album">>}

(***************************************************************************)
(* State.                                                                  *)
(*   The codec harness: the inputs of one evaluation of the prefix         *)
(*   builder and of cleanAlbumPrefix, and what they returned.              *)
(*   The file: the tag of one audio file as TagLib shows it, and the last  *)
(*   writeTags call made on it.                                            *)
(***************************************************************************)
VARIABLES
    tagsToWrite,  \* the -put list given to the evaluation
    res,          \* the AnalysisResult given to the evaluation
    original,     \* the album text given to the evaluation
    originalSegs, \* the segments original was joined from
    parts,        \* the vector parts writeTags built
    cleanIn,      \* the argument cleanAlbumPrefix was called with
    cleanOut,     \* what cleanAlbumPrefix returned
    cpc,          \* "start", then "skipped", "noparts" or "built" (the prefix builder),
                  \* "stripped" or "cleaned" (cleanAlbumPrefix)
    kind,         \* what f.tag() is: "ID3v2", "Xiph" or "Other" (MP4, ...)
    album,        \* tag->album()
    comment,      \* tag->comment() of a tag that is neither ID3v2 nor Xiph
    frames,       \* the frames of an ID3v2 tag besides TALB, in tag order
    xiph,         \* the fields of a Xiph comment besides ALBUM
    fields,       \* title, artist, genre, year and track of the tag
    album0,       \* the Album the file had before the first call
    last,         \* the last writeTags call on the file, the tag it found, its outcome
    nWrites       \* number of writeTags calls made on the file

\* The file of the cover, removal and edit operations, and one run of main.
VARIABLES
    format,       \* the TagLib::File subclass f.file() is: "MP3", "MP4", "FLAC", "WAV",
                  \* "AIFF" or "OGG"
    pictures,     \* the pictures the file holds: APIC frames, covr entries, FLAC pictures
    clast,        \* the last embedCover or removeCover call on the file and what it logged
    nCovers,      \* number of embedCover and removeCover calls made on the file
    props,        \* the tag of the file, as the keys and value lists properties() shows
    plast,        \* the last removeTags, removeAllTags or applyTagOperations call
    args,         \* the Args of the run
    nFiles,       \* results.size()
    stage,        \* the block of main the run is in
    idx,          \* number of files the loop of the block has passed
    trace,        \* for every file of results, the operations called on it, in call order
    failed        \* the files on which some call failed

VARIABLES
    files,        \* the vector files of main: for every file, whether its analysis
                  \* succeeds and whether it passes the BPM, size and key filters
    found,        \* files.size() as findFiles left it
    limit,        \* args.limit
    results,      \* the vector results of main, as positions of files
    scanned,      \* processedCount
    handles,      \* number of TagLib::FileRef objects alive
    inCall,       \* the function whose FileRef is alive: "main", an operation, or "none"
    lines         \* for every file of results, the number of outcome lines logged for it

codecVars == <<tagsToWrite, res, original, originalSegs, parts, cleanIn, cleanOut, cpc>>

fileVars == <<kind, album, comment, frames, xiph, fields, album0, last, nWrites>>

coverVars == <<format, pictures, clast, nCovers>>

propVars == <<props, plast>>

mainVars == <<files, found, limit, results, scanned, handles, inCall, lines>>

runVars == <<args, nFiles, stage, idx, trace, failed, mainVars>>

editVars == <<coverVars, propVars, runVars>>

vars == <<isalnumHigh, codecVars, fileVars, editVars>>

\* the tag as one value
Tag == [album |-> album, comment |-> comment, frames |-> frames, xiph |-> xiph, fields |-> fields]

\* nothing has been called on the file yet
NoCall ==
    [outcome |-> "none", requested |-> {}, force |-> FALSE,
     res |-> [bpm |-> 0, energy |-> 0, keyCamelot |-> ""], before |-> <<>>]

NoXiphFields == [k \in {"BPM", "INITIALKEY", "ENERGY", "COMMENT"} |-> <<>>]

SomeFields == [title |-> "Song", artist |-> "DJ Test", genre |-> "House", year |-> 1999, track |-> 7]

\* the file of the codec specifications: a tag nothing is called on
FileIdle ==
    /\ kind = "Other"
    /\ album = ""
    /\ comment = ""
    /\ frames = <<>>
    /\ xiph = NoXiphFields
    /\ fields = SomeFields
    /\ album0 = ""
    /\ last = NoCall
    /\ nWrites = 0

\* the codec harness of the specifications that evaluate nothing with it
CodecIdle ==
    /\ tagsToWrite = <<>>
    /\ res = [bpm |-> 0, energy |-> 0, keyCamelot |-> ""]
    /\ original = ""
    /\ originalSegs = <<>>
    /\ parts = <<>>
    /\ cleanIn = ""
    /\ cleanOut = ""
    /\ cpc = "start"

\* no embedCover or removeCover call has been made on the file yet
NoCoverCall ==
    [op |-> "none", io |-> "ok", logged |-> <<>>, saved |-> FALSE, imagePath |-> "",
     imgData |-> "", before |-> <<>>]

\* a file nothing is embedded in or removed from
CoverIdle ==
    /\ format = "MP3"
    /\ pictures = <<>>
    /\ clast = NoCoverCall
    /\ nCovers = 0

\* a property view with no key
NoProps == [k \in {} |-> <<>>]

\* no removeTags, removeAllTags or applyTagOperations call has been made yet
NoEditCall ==
    [op |-> "none", io |-> "ok", logged |-> <<>>, saves |-> 0, tags |-> <<>>, ops |-> <<>>,
     before |-> NoProps]

\* a tag nothing is removed from or edited in
PropsIdle ==
    /\ props = NoProps
    /\ plast = NoEditCall

\* the Args of a run that requests nothing
NoArgs ==
    [listMode |-> FALSE, tagsToWrite |-> FALSE, meta |-> FALSE, coverPath |-> FALSE,
     removeCover |-> FALSE, removeAllTags |-> FALSE, tagsToRemove |-> FALSE, tagOps |-> FALSE]

\* main as the coarse model of the blocks leaves it: no file list, no FileRef
MainIdle ==
    /\ files = <<>>
    /\ found = 0
    /\ limit = 0
    /\ results = <<>>
    /\ scanned = 0
    /\ handles = 0
    /\ inCall = "none"
    /\ lines = <<>>

\* no run of main
RunIdle ==
    /\ MainIdle
    /\ args = NoArgs
    /\ nFiles = 0
    /\ stage = "output"
    /\ idx = 0
    /\ trace = <<>>
    /\ failed = {}

EditIdle == CoverIdle /\ PropsIdle /\ RunIdle

(***************************************************************************)
(* The prefix builder on its own: every -put list against every analysis.  *)
(***************************************************************************)
InitParts ==
    /\ isalnumHigh \in BOOLEAN
    /\ tagsToWrite \in Requests
    /\ res \in AllResults
    /\ original = ""
    /\ originalSegs = <<>>
    /\ parts = <<>>
    /\ cleanIn = ""
    /\ cleanOut = ""
    /\ cpc = "start"
    /\ FileIdle
    /\ EditIdle

\* writeTags up to `if (parts.empty()) return;`
BuildPrefix ==
    /\ cpc = "start"
    /\ ~SkipsWrite(res, tagsToWrite)
    /\ parts' = BuildParts(res, tagsToWrite)
    /\ cpc' = IF parts' = <<>> THEN "noparts" ELSE "built"
    /\ UNCHANGED <<tagsToWrite, res, original, originalSegs, cleanIn, cleanOut>>
    /\ UNCHANGED <<isalnumHigh, fileVars, editVars>>

\* writeTags returning at `if (tagsToWrite.empty() || ...) return;`
SkipBuild ==
    /\ cpc = "start"
    /\ SkipsWrite(res, tagsToWrite)
    /\ cpc' = "skipped"
    /\ UNCHANGED <<tagsToWrite, res, original, originalSegs, parts, cleanIn, cleanOut>>
    /\ UNCHANGED <<isalnumHigh, fileVars, editVars>>

NextParts == BuildPrefix \/ SkipBuild

SpecParts == InitParts /\ [][NextParts]_vars

(***************************************************************************)
(* cleanAlbumPrefix on its own: on an album text, and on an album text     *)
(* behind a prefix writeTags built.                                        *)
(***************************************************************************)
InitCodec ==
    /\ isalnumHigh \in BOOLEAN
    /\ tagsToWrite \in SubsetRequests
    /\ res \in Results
    /\ originalSegs \in AlbumSegs
    /\ original = Join(originalSegs, Delim)
    /\ parts = <<>>
    /\ cleanIn = ""
    /\ cleanOut = ""
    /\ cpc = "start"
    /\ FileIdle
    /\ EditIdle

\* cleanAlbumPrefix(original)
StripAlbum ==
    /\ cpc = "start"
    /\ cleanIn' = original
    /\ cleanOut' = cleanAlbumPrefix(original)
    /\ cpc' = "stripped"
    /\ UNCHANGED <<tagsToWrite, res, original, originalSegs, parts>>
    /\ UNCHANGED <<isalnumHigh, fileVars, editVars>>

\* cleanAlbumPrefix(newPrefix + " | " + original), newPrefix as writeTags builds it
StripPrefixed ==
    /\ cpc = "start"
    /\ ~SkipsWrite(res, tagsToWrite)
    /\ BuildParts(res, tagsToWrite) # <<>>
    /\ parts' = BuildParts(res, tagsToWrite)
    /\ cleanIn' = NewPrefix(parts') \o " | " \o original
    /\ cleanOut' = cleanAlbumPrefix(cleanIn')
    /\ cpc' = "cleaned"
    /\ UNCHANGED <<tagsToWrite, res, original, originalSegs>>
    /\ UNCHANGED <<isalnumHigh, fileVars, editVars>>

NextCodec == StripAlbum \/ StripPrefixed

SpecCodec == InitCodec /\ [][NextCodec]_vars

(***************************************************************************)
(* The tag of a file as TagLib keeps it.                                   *)
(***************************************************************************)
Frame(id, desc, text) == [id |-> id, desc |-> desc, text |-> text]

\* id3->frameList(frameId)
frameList(fs, frameId) == SelectSeq(fs, LAMBDA f : f.id = frameId)

\* id3->removeFrames(frameId)
removeFrames(fs, frameId) == SelectSeq(fs, LAMBDA f : f.id # frameId)

\* id3->addFrame(frame)
addFrame(fs, frame) == Append(fs, frame)

\* id3->removeFrame(frame) for every frame of the list framesToRemove
removeEach(fs, framesToRemove) == SelectSeq(fs, LAMBDA f : f \notin framesToRemove)

\* `frame->description().toCString(true) == "LITERAL"`: both sides are const char*,
\* so == compares addresses. The left one is the buffer of a temporary
\* TagLib::String, the right one a string literal: two different objects, and
\* the comparison is false whatever the description holds.
CStrEqualsLiteral(desc, literal) == FALSE

\* TagLib::ID3v2::Tag::setComment(s) for a non-empty s: the text goes to the COMM
\* frame with an empty description, else to the first COMM frame, else to a new one
Id3SetComment(fs, s) ==
    LET comm == {i \in 1..Len(fs) : fs[i].id = "COMM"}
        plain == {i \in comm : fs[i].desc = ""}
        first(S) == CHOOSE i \in S : \A j \in S : i <= j
    IN  IF comm = {} THEN Append(fs, Frame("COMM", "", s))
        ELSE LET at == IF plain # {} THEN first(plain) ELSE first(comm)
             IN  [fs EXCEPT ![at].text = s]

\* ogg->addField(key, value, true): the value replaces the field's values
addField(x, key, value) == [x EXCEPT ![key] = <<value>>]

(***************************************************************************)
(* writeTags, from the opening of the file (src/main.cpp:1422-1569).       *)
(***************************************************************************)
\* finalAlbum
FinalAlbum(currentAlbum, newPrefix, force) ==
    IF force
    THEN newPrefix
    ELSE LET cleaned == cleanAlbumPrefix(currentAlbum)
         IN  IF cleaned = "" THEN newPrefix ELSE newPrefix \o " | " \o cleaned

\* mutant of SetGenericComment: the generic comment is left as it was
KeepGenericComment(current, commentStr) == current

\* tag->setComment(commentStr) on a tag that is neither ID3v2 nor Xiph
SetGenericComment(current, commentStr) == StringFromLatin1(commentStr)

\* mutant of Id3SetTextFrame: the new frame is added next to the old ones
Id3AddTextFrame(fs, frameId, text) == addFrame(fs, Frame(frameId, "", text))

\* the TBPM and TKEY blocks: the frames of that id are removed, one is added
Id3SetTextFrame(fs, frameId, text) ==
    LET kept == IF frameList(fs, frameId) # <<>> THEN removeFrames(fs, frameId) ELSE fs
    IN  addFrame(kept, Frame(frameId, "", text))

\* the TXXX block: the frames to remove are those whose description compares
\* equal to "ENERGY"; then one TXXX frame described ENERGY is added
Id3SetEnergy(fs, energyStr) ==
    LET txxxFrames == frameList(fs, "TXXX")
        framesToRemove == {f \in Range(txxxFrames) : CStrEqualsLiteral(f.desc, "ENERGY")}
    IN  addFrame(removeEach(fs, framesToRemove), Frame("TXXX", "ENERGY", energyStr))

\* the COMM block: the frames to remove are those whose description compares
\* equal to "AMALYZER"; then one COMM frame described AMALYZER is added
Id3SetAmalyzerComment(fs, commentStr) ==
    LET commFrames == frameList(fs, "COMM")
        commFramesToRemove == {f \in Range(commFrames) : CStrEqualsLiteral(f.desc, "AMALYZER")}
    IN  addFrame(removeEach(fs, commFramesToRemove), Frame("COMM", "AMALYZER", commentStr))

\* the ID3v2 branch, after tag->setComment(commentStr)
Id3Mirror(fs, r, req) ==
    LET f0 == Id3SetComment(fs, CommentStr(r, req))
        f1 == IF Requested(req, "bpm") THEN Id3SetTextFrame(f0, "TBPM", BpmStr(r)) ELSE f0
        f2 == IF Requested(req, "key") THEN Id3SetTextFrame(f1, "TKEY", KeyStr(r)) ELSE f1
        f3 == IF Requested(req, "energy") THEN Id3SetEnergy(f2, EnergyStr(r)) ELSE f2
    IN  Id3SetAmalyzerComment(f3, CommentStr(r, req))

\* the Xiph branch, after tag->setComment(commentStr)
XiphMirror(x, r, req) ==
    LET x0 == addField(x, "COMMENT", CommentStr(r, req))
        x1 == IF Requested(req, "bpm") THEN addField(x0, "BPM", BpmStr(r)) ELSE x0
        x2 == IF Requested(req, "key") THEN addField(x1, "INITIALKEY", KeyStr(r)) ELSE x1
        x3 == IF Requested(req, "energy") THEN addField(x2, "ENERGY", EnergyStr(r)) ELSE x2
    IN  addField(x3, "COMMENT", CommentStr(r, req))

\* what a call that reaches the file can meet: the file opens and saves, does
\* not open, does not save, or the tag library throws
IoOutcomes == {"ok", "openFails", "saveFails", "throws"}

\* a call that saved: its arguments and the tag it found
Saved(r, req, force) ==
    [outcome |-> "saved", requested |-> Range(req), force |-> force, res |-> r, before |-> Tag]

\* a call that left the file as it was: why
Left(outcome) == [NoCall EXCEPT !.outcome = outcome, !.before = Tag]

\* writeTags(res, tagsToWrite, force) on the file
writeTags(r, req, force) ==
    /\ nWrites < MaxWrites
    /\ nWrites' = nWrites + 1
    /\ UNCHANGED <<kind, fields, album0>>
    /\ UNCHANGED <<isalnumHigh, codecVars, editVars>>
    /\ IF SkipsWrite(r, req)
       THEN /\ last' = Left("skipped")
            /\ UNCHANGED <<album, comment, frames, xiph>>
       ELSE IF BuildParts(r, req) = <<>>
       THEN /\ last' = Left("noparts")
            /\ UNCHANGED <<album, comment, frames, xiph>>
       ELSE \E io \in IoOutcomes :
            IF io # "ok"
            THEN \* nothing reaches the file: the changes die with the FileRef
                 /\ last' = Left(IF io = "openFails" THEN "openFailed"
                                 ELSE IF io = "saveFails" THEN "saveFailed"
                                 ELSE "exception")
                 /\ UNCHANGED <<album, comment, frames, xiph>>
            ELSE /\ last' = Saved(r, req, force)
                 /\ album' = StringFromLatin1(
                                FinalAlbum(toCString(album), NewPrefix(BuildParts(r, req)), force))
                 /\ comment' = IF kind = "Other"
                               THEN SetGenericComment(comment, CommentStr(r, req))
                               ELSE comment
                 /\ frames' = IF kind = "ID3v2" THEN Id3Mirror(frames, r, req) ELSE frames
                 /\ xiph' = IF kind = "Xiph" THEN XiphMirror(xiph, r, req) ELSE xiph

(***************************************************************************)
(* The files writeTags is called on.                                       *)
(***************************************************************************)
\* album texts: none, plain text, the prefix a force write leaves, four
\* token-like segments in front of a text, a text with a delimiter of its
\* own, a word that ends in e acute
FileAlbums ==
    {"", "Greatest Hits", "128 | 0.73 | 8A", "A | B | C | D | Live", "Best Of | Vol. 2",
     "Caf%"}

\* frames of an ID3v2 tag: none, a TBPM, doubled TBPM with a TKEY, TXXX frames
\* with and without the ENERGY description, COMM frames with and without the
\* AMALYZER description
FileFrames ==
    {<<>>,
     <<Frame("TBPM", "", "120")>>,
     <<Frame("TBPM", "", "120"), Frame("TKEY", "", "Am"), Frame("TBPM", "", "121")>>,
     <<Frame("TXXX", "MOOD", "happy"), Frame("TXXX", "ENERGY", "0.50")>>,
     <<Frame("COMM", "iTunNORM", "0000"), Frame("COMM", "", "my note")>>,
     <<Frame("COMM", "AMALYZER", "BPM: 120")>>}

FileXiph ==
    {NoXiphFields,
     [NoXiphFields EXCEPT !["BPM"] = <<"120">>, !["COMMENT"] = <<"my note">>]}

FileComments == {"", "my note"}

\* a file that is neither ID3v2 nor Xiph with any of the albums, or an ID3v2 or
\* Xiph file with any of the frame or field lists
InitWrite ==
    /\ isalnumHigh \in BOOLEAN
    /\ kind \in {"ID3v2", "Xiph", "Other"}
    /\ album \in (IF kind = "Other" THEN FileAlbums ELSE {"Greatest Hits"})
    /\ album0 = album
    /\ frames \in (IF kind = "ID3v2" THEN FileFrames ELSE {<<>>})
    /\ xiph \in (IF kind = "Xiph" THEN FileXiph ELSE {NoXiphFields})
    /\ comment \in (IF kind = "Other" THEN FileComments ELSE {""})
    /\ fields = SomeFields
    /\ last = NoCall
    /\ nWrites = 0
    /\ tagsToWrite = <<>>
    /\ res = [bpm |-> 0, energy |-> 0, keyCamelot |-> ""]
    /\ original = ""
    /\ originalSegs = <<>>
    /\ parts = <<>>
    /\ cleanIn = ""
    /\ cleanOut = ""
    /\ cpc = "start"
    /\ EditIdle

NextWrite ==
    \E r \in Results, req \in SubsetRequests, force \in BOOLEAN :
        writeTags(r, req, force)

SpecWrite == InitWrite /\ [][NextWrite]_vars

\* the default specification: writeTags on a file
Init == InitWrite

Next == NextWrite

Spec == SpecWrite

(***************************************************************************)
(* What the claims are stated with.                                        *)
(***************************************************************************)
\* the kinds in the order the prefix holds them
KindOrder == <<"bpm", "energy", "key">>

PartText(r, k) ==
    IF k = "bpm" THEN BpmStr(r) ELSE IF k = "energy" THEN EnergyStr(r) ELSE KeyStr(r)

\* the texts of the requested kinds, each once, in the order bpm, energy, key
PartsOf(requested, r) ==
    LET sel == SelectSeq(KindOrder, LAMBDA k : k \in requested)
    IN  [i \in 1..Len(sel) |-> PartText(r, sel[i])]

\* t is the end of s
IsSuffix(t, s) == Len(t) <= Len(s) /\ SubSeq(s, Len(s) - Len(t) + 1, Len(s)) = t

\* number of places where the delimiter occurs in s
DelimCount(s) == Cardinality({i \in 1..(Len(s) - 2) : SubSeq(s, i, i + 2) = Delim})

\* number of ' | '-separated segments of an album text
SegCount(s) == IF s = "" THEN 0 ELSE DelimCount(s) + 1

\* s begins with a ' | '-terminated segment made only of alphanumerics, '.' or '#'
BeginsWithPrefixSegment(s) ==
    /\ Find(s, Delim) # npos
    /\ AllPrefixChars(SubSeq(s, 1, Find(s, Delim) - 1))

\* the detected track of the examples: bpm 128, energy 0.73, key 8A
Detected == [bpm |-> 12800, energy |-> 73, keyCamelot |-> "8A"]

AllKinds == {"bpm", "energy", "key"}

(***************************************************************************)
(* C1. Two writeTags calls in succession with the same arguments and       *)
(* force=false, both saved, leave the Album after the second call equal    *)
(* to the Album after the first.                                           *)
(***************************************************************************)
C1_RepeatedWriteKeepsAlbum ==
    [][(/\ last.outcome = "saved"
        /\ ~last.force
        /\ last'.outcome = "saved"
        /\ last'.requested = last.requested
        /\ last'.res = last.res
        /\ last'.force = last.force) => album' = album]_vars

(***************************************************************************)
(* C2. After any sequence of saved writeTags calls the Album holds at most *)
(* 3 analysis segments besides the segments the file had before the first  *)
(* call: the segments do not pile up with the writes.                      *)
(***************************************************************************)
C2_AtMostThreeAnalysisSegments ==
    last.outcome = "saved" => SegCount(album) <= 3 + SegCount(album0)

(***************************************************************************)
(* C3. For a prefix writeTags built and an original album text that does   *)
(* not begin with a prefix-like segment, cleanAlbumPrefix of               *)
(* prefix + " | " + original is original.                                  *)
(***************************************************************************)
C3_StripRecoversOriginal ==
    (cpc = "cleaned" /\ ~BeginsWithPrefixSegment(original)) => cleanOut = original

(***************************************************************************)
(* C4. cleanAlbumPrefix returns a suffix of its argument and removes at    *)
(* most 3 delimiters with the segments in front of them; when the album    *)
(* text begins with 4 prefix-like segments, the text from the 4th segment  *)
(* on is what it returns.                                                  *)
(***************************************************************************)
C4_StripsAtMostThree ==
    cpc \in {"stripped", "cleaned"} =>
        /\ IsSuffix(cleanOut, cleanIn)
        /\ DelimCount(SubSeq(cleanIn, 1, Len(cleanIn) - Len(cleanOut))) <= 3
        /\ (/\ cpc = "stripped"
            /\ Len(originalSegs) >= 5
            /\ \A i \in 1..4 : AllPrefixChars(originalSegs[i]))
           => cleanOut = Join(SubSeq(originalSegs, 4, Len(originalSegs)), Delim)

C4_Witness ==
    /\ cpc = "stripped"
    /\ originalSegs = <<"C#.7", "C#.7", "C#.7", "C#.7", "Greatest Hits">>
    /\ cleanOut = "C#.7 | Greatest Hits"

(***************************************************************************)
(* C5. After a saved writeTags the Album is the prefix P of the requested  *)
(* parts when force is set or the cleaned current Album is empty, and      *)
(* P + " | " + cleaned current Album otherwise; 'Greatest Hits' with bpm   *)
(* 128, energy 0.73, key 8A becomes '128 | 0.73 | 8A | Greatest Hits', and *)
(* '128 | 0.73 | 8A' with force.                                           *)
(***************************************************************************)
C5_CommittedAlbum ==
    last.outcome = "saved" =>
        LET P == Join(PartsOf(last.requested, last.res), " | ")
            cleaned == cleanAlbumPrefix(last.before.album)
        IN  /\ (last.force \/ cleaned = "") => album = P
            /\ (~last.force /\ cleaned # "") => album = P \o " | " \o cleaned
            /\ (/\ last.before.album \in {"Greatest Hits", "128 | Greatest Hits"}
                /\ last.res = Detected
                /\ last.requested = AllKinds)
               => album = IF last.force THEN "128 | 0.73 | 8A"
                          ELSE "128 | 0.73 | 8A | Greatest Hits"

(***************************************************************************)
(* C6. Whatever the order and multiplicity of the kinds in the request,    *)
(* the parts writeTags builds are the texts of the requested kinds in the  *)
(* order bpm, energy, key, each once, and nothing for a kind not           *)
(* requested.                                                              *)
(***************************************************************************)
C6_PartsInFixedOrder ==
    cpc \in {"built", "noparts"} =>
        /\ parts = PartsOf(Range(tagsToWrite), res)
        /\ Len(parts) = Cardinality(Range(tagsToWrite) \cap AllKinds)

C6_Witness ==
    /\ cpc = "built"
    /\ tagsToWrite = <<"key", "bpm", "key">>
    /\ parts = <<"128", "8A">>

(***************************************************************************)
(* C7. On an ID3v2 file, after a saved writeTags that requests energy, the *)
(* tag holds exactly one TXXX frame described ENERGY, with the energy text *)
(* of that write.                                                          *)
(***************************************************************************)
C7_OneEnergyFrame ==
    (kind = "ID3v2" /\ last.outcome = "saved" /\ "energy" \in last.requested) =>
        SelectSeq(frames, LAMBDA f : f.id = "TXXX" /\ f.desc = "ENERGY")
            = <<Frame("TXXX", "ENERGY", EnergyStr(last.res))>>

(***************************************************************************)
(* C8. On an ID3v2 file, after a saved writeTags, the tag holds at most    *)
(* one COMM frame described AMALYZER.                                      *)
(***************************************************************************)
C8_OneAmalyzerComment ==
    (kind = "ID3v2" /\ last.outcome = "saved") =>
        Len(SelectSeq(frames, LAMBDA f : f.id = "COMM" /\ f.desc = "AMALYZER")) <= 1

(***************************************************************************)
(* C9. On an ID3v2 file, after a saved writeTags that requests bpm (key),  *)
(* the tag holds exactly one TBPM (TKEY) frame, with the value of that     *)
(* write, whatever frames the file held before.                            *)
(***************************************************************************)
C9_OneTextFrame ==
    (kind = "ID3v2" /\ last.outcome = "saved") =>
        /\ "bpm" \in last.requested =>
               frameList(frames, "TBPM") = <<Frame("TBPM", "", BpmStr(last.res))>>
        /\ "key" \in last.requested =>
               frameList(frames, "TKEY") = <<Frame("TKEY", "", KeyStr(last.res))>>

C9_Witness ==
    /\ kind = "ID3v2"
    /\ last.outcome = "saved"
    /\ nWrites = 2
    /\ {"bpm", "key"} \subseteq last.requested
    /\ Len(frameList(last.before.frames, "TBPM")) >= 1
    /\ Len(frameList(last.before.frames, "TKEY")) >= 1
    /\ Len(frameList(frames, "TBPM")) = 1
    /\ Len(frameList(frames, "TKEY")) = 1

(***************************************************************************)
(* C10. On a file whose tag is neither ID3v2 nor Xiph, a saved writeTags   *)
(* changes only the Album: every other field, the generic Comment          *)
(* included, is as before.                                                 *)
(***************************************************************************)
C10_OnlyAlbumChanges ==
    (kind = "Other" /\ last.outcome = "saved") =>
        [Tag EXCEPT !.album = last.before.album] = last.before

(***************************************************************************)
(* C10, amended. On such a file a saved writeTags changes only the Album   *)
(* and the generic Comment, which becomes the 'BPM: .. | Key: .. |         *)
(* Energy: ..' text of the requested kinds.                                *)
(***************************************************************************)
C10_OnlyAlbumAndCommentChange ==
    (kind = "Other" /\ last.outcome = "saved") =>
        /\ [Tag EXCEPT !.album = last.before.album, !.comment = last.before.comment]
               = last.before
        /\ comment = CommentStr(last.res, SelectSeq(KindOrder, LAMBDA k : k \in last.requested))
        /\ (last.res = Detected /\ last.requested = AllKinds)
               => comment = "BPM: 128 | Key: 8A | Energy: 0.73"

C10_Witness ==
    /\ kind = "Other"
    /\ last.outcome = "saved"
    /\ last.before.comment = "my note"
    /\ comment = "BPM: 128 | Key: 8A | Energy: 0.73"
    /\ fields = SomeFields

(***************************************************************************)
(* Letter case: ::tolower and ::toupper in the "C" locale, and the         *)
(* std::transform calls that apply them to a whole string.                 *)
(***************************************************************************)
UpperLetters == "ABCDEFGHIJKLMNOPQRSTUVWXYZ"

LowerLetters == "abcdefghijklmnopqrstuvwxyz"

tolower(c) ==
    LET i == Find(UpperLetters, c) IN IF i = npos THEN c ELSE CharAt(LowerLetters, i)

toupper(c) ==
    LET i == Find(LowerLetters, c) IN IF i = npos THEN c ELSE CharAt(UpperLetters, i)

RECURSIVE toLower(_)
\* toLower(str): every character through ::tolower
toLower(str) ==
    IF str = "" THEN "" ELSE tolower(CharAt(str, 1)) \o toLower(SubSeq(str, 2, Len(str)))

RECURSIVE toUpper(_)
\* std::transform(upperKey.begin(), upperKey.end(), upperKey.begin(), ::toupper)
toUpper(str) ==
    IF str = "" THEN "" ELSE toupper(CharAt(str, 1)) \o toUpper(SubSeq(str, 2, Len(str)))

(***************************************************************************)
(* embedCover and removeCover (src/main.cpp:1576-1827).                    *)
(*                                                                         *)
(* pictures is what the branch of the file's format works on: the APIC     *)
(* frames of the ID3v2 tag (MP3, WAV, AIFF), the entries of the covr item  *)
(* (MP4), the picture blocks (FLAC). Changes made through TagLib reach the *)
(* file when save() returns true and die with the FileRef otherwise.       *)
(* The messages are spelled without their accents.                         *)
(***************************************************************************)
\* number of embedCover and removeCover calls applied to one file
MaxCovers == 2

Formats == {"MP3", "MP4", "FLAC", "WAV", "AIFF", "OGG"}

\* the formats embedCover and removeCover have a branch for
BranchFormats == {"MP3", "MP4", "FLAC", "WAV", "AIFF"}

Picture(type, mimeType, data) == [type |-> type, mimeType |-> mimeType, data |-> data]

\* the test that picks mimeType and mp4Format from the image path
IsPngPath(imagePath) ==
    /\ Len(imagePath) > 4
    /\ toLower(SubstrFrom(imagePath, Len(imagePath) - 4 + 1)) = ".png"

MimeTypeOf(imagePath) == IF IsPngPath(imagePath) THEN "image/png" ELSE "image/jpeg"

\* mutant of RemovePictures: the existing pictures stay
KeepPictures(pics) == pics

\* mutant of RemovePictures: only the front covers go
RemoveFrontCovers(pics) == SelectSeq(pics, LAMBDA p : p.type # "FrontCover")

\* the loop of removeFrame over frameList("APIC"), flacFile->removePictures(),
\* and the replacement of the covr item: no picture of the list stays
RemovePictures(pics) == <<>>

\* the picture list a branch of embedCover builds in memory
EmbedPicture(pics, mimeType, imgData) ==
    Append(RemovePictures(pics), Picture("FrontCover", mimeType, imgData))

\* what an embedCover call can meet: nothing, no image file at imagePath, an
\* audio file that does not open, an image file that does not open, a save()
\* that returns false, an exception of the tag library
CoverIo == {"ok", "noImage", "openFails", "imageUnreadable", "saveFails", "throws"}

\* `bool saved` at the end of embedCover
EmbedSaved(fmt, io) == fmt \in BranchFormats /\ io = "ok"

\* the log line of an embedCover call (level and message), <<>> when it logs nothing
EmbedLog(fmt, io) ==
    IF io = "noImage" THEN <<"ERROR", "Imagem nao encontrada">>
    ELSE IF io \in {"openFails", "imageUnreadable"} THEN <<>>
    ELSE IF io = "throws" THEN <<"ERROR", "Erro capa">>
    ELSE IF EmbedSaved(fmt, io) THEN <<"SUCCESS", "Capa adicionada">>
    ELSE <<"WARNING", "Formato nao suportado ou falha ao salvar">>

\* embedCover(audioPath, imagePath) on the file
embedCover(image, io) ==
    /\ nCovers < MaxCovers
    /\ nCovers' = nCovers + 1
    /\ clast' = [op |-> "embedCover", io |-> io, logged |-> EmbedLog(format, io),
                 saved |-> EmbedSaved(format, io), imagePath |-> image.path,
                 imgData |-> image.data, before |-> pictures]
    /\ pictures' = IF EmbedSaved(format, io)
                   THEN EmbedPicture(pictures, MimeTypeOf(image.path), image.data)
                   ELSE pictures
    /\ UNCHANGED <<format, propVars, runVars>>
    /\ UNCHANGED <<isalnumHigh, codecVars, fileVars>>

\* what a removeCover call can meet
RemoveIo == {"ok", "openFails", "saveFails", "throws"}

\* whether a removeCover call reaches a save(): the MP4 branch removes the covr
\* item from the tag in memory and has no save(); the other branches save when
\* they found a picture
RemoveCallsSave(fmt, pics) == fmt \in {"MP3", "FLAC", "WAV", "AIFF"} /\ pics # <<>>

\* `bool saved` at the end of removeCover
RemoveSaved(fmt, pics, io) == RemoveCallsSave(fmt, pics) /\ io = "ok"

RemoveLog(fmt, pics, io) ==
    IF io = "openFails" THEN <<>>
    ELSE IF io = "throws" THEN <<"ERROR", "Erro remover capa">>
    ELSE IF RemoveSaved(fmt, pics, io) THEN <<"SUCCESS", "Capa removida">>
    ELSE <<>>

\* removeCover(audioPath) on the file
removeCover(io) ==
    /\ nCovers < MaxCovers
    /\ nCovers' = nCovers + 1
    /\ clast' = [op |-> "removeCover", io |-> io, logged |-> RemoveLog(format, pictures, io),
                 saved |-> RemoveSaved(format, pictures, io), imagePath |-> "",
                 imgData |-> "", before |-> pictures]
    /\ pictures' = IF RemoveSaved(format, pictures, io) THEN RemovePictures(pictures) ELSE pictures
    /\ UNCHANGED <<format, propVars, runVars>>
    /\ UNCHANGED <<isalnumHigh, codecVars, fileVars>>

\* image files: a JPEG, a PNG, a PNG with an upper-case extension, a PNG whose
\* whole name is the extension
ImageFiles ==
    {[path |-> "cover.jpg", data |-> "JFIF-1"], [path |-> "art.png", data |-> "PNG-1"],
     [path |-> "ART.PNG", data |-> "PNG-2"], [path |-> ".png", data |-> "PNG-3"]}

\* prior picture states: none, a front cover, two front covers, a back cover
\* next to a front cover
FilePictures ==
    {<<>>,
     <<Picture("FrontCover", "image/jpeg", "OLD-1")>>,
     <<Picture("FrontCover", "image/jpeg", "OLD-1"), Picture("FrontCover", "image/png", "OLD-2")>>,
     <<Picture("BackCover", "image/jpeg", "OLD-3"), Picture("FrontCover", "image/jpeg", "OLD-1")>>}

\* the entries of a covr item have no picture type: all of them are covers
InitCover ==
    /\ isalnumHigh = FALSE
    /\ CodecIdle
    /\ FileIdle
    /\ format \in Formats
    /\ pictures \in (IF format = "OGG" THEN {<<>>}
                     ELSE IF format = "MP4"
                          THEN {p \in FilePictures : \A i \in 1..Len(p) : p[i].type = "FrontCover"}
                          ELSE FilePictures)
    /\ clast = NoCoverCall
    /\ nCovers = 0
    /\ PropsIdle
    /\ RunIdle

NextCover ==
    \/ \E image \in ImageFiles, io \in CoverIo : embedCover(image, io)
    \/ \E io \in RemoveIo : removeCover(io)

SpecCover == InitCover /\ [][NextCover]_vars

\* the front-cover pictures of the file
FrontCovers(pics) == SelectSeq(pics, LAMBDA p : p.type = "FrontCover")

\* the text s ends with the text t
EndsWith(s, t) == Len(t) <= Len(s) /\ SubSeq(s, Len(s) - Len(t) + 1, Len(s)) = t

\* C11 as stated: after a successful embedCover on MP3, MP4, FLAC, WAV or AIFF
\* the file holds exactly one FrontCover picture, with the bytes of the image
\* of that call and the MIME type image/png when the image path ends in .png,
\* image/jpeg otherwise.
C11_OneCoverMimeByPathEnd ==
    (clast.op = "embedCover" /\ clast.saved /\ format \in BranchFormats)
        => FrontCovers(pictures) =
               <<Picture("FrontCover",
                         IF EndsWith(clast.imagePath, ".png") THEN "image/png" ELSE "image/jpeg",
                         clast.imgData)>>

\* C11 amended: after a successful embedCover on MP3, MP4, FLAC, WAV or AIFF,
\* whatever pictures the file held and whatever calls came before, the file
\* holds exactly one FrontCover picture, with the bytes of the image of that
\* call; its MIME type is image/png when the image path is longer than four
\* characters and its last four characters are .png in any letter case, and
\* image/jpeg otherwise.
C11_OneCoverOfLastImage ==
    (clast.op = "embedCover" /\ clast.saved /\ format \in BranchFormats)
        => /\ Len(FrontCovers(pictures)) = 1
           /\ FrontCovers(pictures)[1].data = clast.imgData
           /\ FrontCovers(pictures)[1].mimeType =
                  (IF /\ Len(clast.imagePath) > 4
                      /\ \E e \in {".png", ".pnG", ".pNg", ".pNG", ".Png", ".PnG", ".PNg", ".PNG"} :
                             EndsWith(clast.imagePath, e)
                   THEN "image/png" ELSE "image/jpeg")

\* a second successful embed, of another image, on a file that held two front
\* covers at the start
C11_Witness ==
    /\ nCovers = 2
    /\ clast.op = "embedCover" /\ clast.saved
    /\ clast.imagePath = "ART.PNG"
    /\ Len(clast.before) = 1
    /\ clast.before[1].data # clast.imgData
    /\ clast.before[1].data \in {"JFIF-1", "PNG-1", "PNG-3"}

\* C12: after a removeCover call that met no failure, on MP3, MP4, FLAC, WAV
\* or AIFF, the file holds no front-cover picture.
C12_NoCoverAfterRemove ==
    (clast.op = "removeCover" /\ clast.io = "ok" /\ format \in BranchFormats)
        => FrontCovers(pictures) = <<>>

\* C18: what embedCover reports on an OGG file differs from what it reports
\* on every format it has a branch for when save() returns false.
C18_UnsupportedIsDistinct ==
    (clast.op = "embedCover" /\ format = "OGG" /\ clast.io = "ok")
        => \A fmt \in BranchFormats : clast.logged # EmbedLog(fmt, "saveFails")

(***************************************************************************)
(* TagLib::PropertyMap and the tag behind it                               *)
(* (removeTags, removeAllTags, applyTagOperations, src/main.cpp:1834-2100).*)
(*                                                                         *)
(* A PropertyMap is a function from its keys to their value lists. TagLib  *)
(* keeps the keys in upper case: contains, erase, replace and operator[]   *)
(* look up key.upper(). The tag of the file is kept as the property view   *)
(* it shows: artist() is the first value of ARTIST, year() of DATE,        *)
(* track() of TRACKNUMBER, and a setter given "" or 0 removes the key.     *)
(***************************************************************************)
\* longest batch of -settag, -addtag and -pretag operations drawn as input
MaxOps == 2
\* longest -remtag list drawn as input
MaxRemove == 2

RECURSIVE StringFromUtf8(_)
\* TagLib::String(op.value, TagLib::String::UTF8): the two bytes of a character
\* U+0080..U+00FF become that character
StringFromUtf8(bytes) ==
    IF bytes = "" THEN ""
    ELSE IF Len(bytes) >= 2 /\ \E c \in HighChars : Utf8Of(c) = SubSeq(bytes, 1, 2)
         THEN (CHOOSE c \in HighChars : Utf8Of(c) = SubSeq(bytes, 1, 2))
                  \o StringFromUtf8(SubSeq(bytes, 3, Len(bytes)))
         ELSE CharAt(bytes, 1) \o StringFromUtf8(SubSeq(bytes, 2, Len(bytes)))

\* properties.contains(key)
PMcontains(pm, key) == toUpper(key) \in DOMAIN pm

\* properties.erase(key)
PMerase(pm, key) == [k \in DOMAIN pm \ {toUpper(key)} |-> pm[k]]

\* properties.replace(key, values)
PMreplace(pm, key, values) ==
    [k \in DOMAIN pm \cup {toUpper(key)} |-> IF k = toUpper(key) THEN values ELSE pm[k]]

\* properties[key] of a key the map contains
PMvalues(pm, key) == pm[toUpper(key)]

\* the names the fallback of removeTags compares lowerT with
WellKnownFields == {"artist", "album", "title", "comment", "genre", "year", "track"}

\* the property key TagLib shows a field of TagLib::Tag under
FieldKey(field) ==
    IF field = "year" THEN "DATE"
    ELSE IF field = "track" THEN "TRACKNUMBER"
    ELSE toUpper(field)

\* tag->setArtist(""), ..., tag->setGenre(""), tag->setYear(0), tag->setTrack(0)
ClearField(tag, field) == PMerase(tag, FieldKey(field))

\* f.file()->setProperties(properties): the keys of the tag that properties
\* lacks are removed and every key of properties gets the values it has there
setProperties(tag, properties) ==
    [k \in DOMAIN properties |-> properties[k]]

\* mutant of RemoveTag: every name counts as a change
RemoveTagMarking(st, t) == [st EXCEPT !.modified = TRUE]

\* one pass of the loop of removeTags over the state (properties, tag, modified)
RemoveTag(st, t) ==
    LET key == t
        upperKey == toUpper(key)
        lowerT == toLower(t)
    IN  IF PMcontains(st.properties, upperKey)
        THEN [st EXCEPT !.properties = PMerase(@, upperKey), !.modified = TRUE]
        ELSE IF PMcontains(st.properties, key)
        THEN [st EXCEPT !.properties = PMerase(@, key), !.modified = TRUE]
        ELSE IF lowerT \in WellKnownFields
        THEN [st EXCEPT !.tag = ClearField(@, lowerT), !.modified = TRUE]
        ELSE st

RECURSIVE RemoveTagsLoop(_, _)
RemoveTagsLoop(st, tags) ==
    IF tags = <<>> THEN st ELSE RemoveTagsLoop(RemoveTag(st, Head(tags)), Tail(tags))

\* what a call can meet: nothing, a file that does not open (or has no tag), a
\* save() or strip() that returns false, an exception of the tag library
EditIo == {"ok", "openFails", "saveFails", "throws"}

\* removeTags(audioPath, tags) on the file
removeTags(tags, io) ==
    LET st == RemoveTagsLoop([properties |-> props, tag |-> props, modified |-> FALSE], tags)
        written == setProperties(st.tag, st.properties)
        reaches == io \in {"ok", "saveFails"} /\ st.modified
    IN  /\ plast.op = "none"
        /\ plast' = [op |-> "removeTags", io |-> io,
                     logged |-> IF io = "throws" THEN <<"ERROR", "Erro remover tags">>
                                ELSE IF ~reaches THEN <<>>
                                ELSE IF io = "ok" THEN <<"SUCCESS", "Tags removidas">>
                                ELSE <<"ERROR", "Falha ao salvar tags removidas">>,
                     saves |-> IF reaches THEN 1 ELSE 0,
                     tags |-> tags, ops |-> <<>>, before |-> props]
        /\ props' = IF reaches /\ io = "ok" THEN written ELSE props
        /\ UNCHANGED <<coverVars, runVars>>
        /\ UNCHANGED <<isalnumHigh, codecVars, fileVars>>

RECURSIVE ClearFields(_, _)
\* the seven setters at the head of removeAllTags
ClearFields(tag, fieldSet) ==
    IF fieldSet = {} THEN tag
    ELSE LET f == CHOOSE f \in fieldSet : TRUE
         IN  ClearFields(ClearField(tag, f), fieldSet \ {f})

\* removeAllTags(audioPath) on the file. On an MPEG file strip(AllTags) cuts
\* the tags out of the file itself and its result is not looked at; on the
\* others the tag with the seven fields cleared is saved.
removeAllTags(io) ==
    LET cleared == ClearFields(props, WellKnownFields)
        reaches == io \in {"ok", "saveFails"}
    IN  /\ plast.op = "none"
        /\ plast' = [op |-> "removeAllTags", io |-> io,
                     logged |-> IF io = "throws" THEN <<"ERROR", "Erro remover todas tags">>
                                ELSE IF ~reaches THEN <<>>
                                ELSE IF format = "MP3"
                                     THEN <<"SUCCESS", "Todas as tags removidas (strip)">>
                                ELSE IF io = "ok" THEN <<"SUCCESS", "Tags limpas">>
                                ELSE <<>>,
                     saves |-> IF reaches /\ format # "MP3" THEN 1 ELSE 0,
                     tags |-> <<>>, ops |-> <<>>, before |-> props]
        /\ props' = IF io # "ok" THEN props
                    ELSE IF format = "MP3" THEN NoProps
                    ELSE cleared
        /\ UNCHANGED <<coverVars, runVars>>
        /\ UNCHANGED <<isalnumHigh, codecVars, fileVars>>

\* enum TagMode
TagModes == {"SET", "APPEND", "PREPEND"}

\* targetKey of applyTagOperations
TargetKey(pm, key) ==
    LET upperKey == toUpper(key)
    IN  IF PMcontains(pm, upperKey) THEN upperKey
        ELSE IF PMcontains(pm, key) THEN key
        ELSE upperKey

\* mutant of SetValue: the value is added to the list the key has
AddValue(pm, targetKey, value) ==
    PMreplace(pm, targetKey,
              (IF PMcontains(pm, targetKey) THEN PMvalues(pm, targetKey) ELSE <<>>) \o <<value>>)

\* properties.replace(targetKey, TagLib::String(op.value, TagLib::String::UTF8))
SetValue(pm, targetKey, value) == PMreplace(pm, targetKey, <<value>>)

\* mutant of AppendToLast: the value becomes a new entry of the list
AppendAsNewEntry(values, value) == Append(values, value)

\* values.back() = current + value
AppendToLast(values, value) == [values EXCEPT ![Len(values)] = @ \o value]

\* values.front() = value + current
PrependToFirst(values, value) == [values EXCEPT ![1] = value \o @]

\* one pass of the loop of applyTagOperations
ApplyOp(pm, op) ==
    LET targetKey == TargetKey(pm, op.key)
        value == StringFromUtf8(op.value)
    IN  IF op.mode = "SET"
        THEN SetValue(pm, targetKey, value)
        ELSE IF PMcontains(pm, targetKey) /\ PMvalues(pm, targetKey) # <<>>
        THEN PMreplace(pm, targetKey,
                       IF op.mode = "APPEND"
                       THEN AppendToLast(PMvalues(pm, targetKey), value)
                       ELSE PrependToFirst(PMvalues(pm, targetKey), value))
        ELSE SetValue(pm, targetKey, value)

\* mutant of ApplyOps: only the last operation of the batch takes effect
ApplyLastOp(pm, ops) == IF ops = <<>> THEN pm ELSE ApplyOp(pm, ops[Len(ops)])

RECURSIVE ApplyOps(_, _)
\* the loop of applyTagOperations over one PropertyMap
ApplyOps(pm, ops) == IF ops = <<>> THEN pm ELSE ApplyOps(ApplyOp(pm, Head(ops)), Tail(ops))

\* applyTagOperations(audioPath, ops) on the file
applyTagOperations(ops, io) ==
    LET properties == ApplyOps(props, ops)
        modified == ops # <<>>
        reaches == io \in {"ok", "saveFails"} /\ modified
    IN  /\ plast.op = "none"
        /\ plast' = [op |-> "applyTagOperations", io |-> io,
                     logged |-> IF io = "throws" THEN <<"ERROR", "Erro editar tags">>
                                ELSE IF ~reaches THEN <<>>
                                ELSE IF io = "ok" THEN <<"SUCCESS", "Tags atualizadas">>
                                ELSE <<"ERROR", "Falha ao salvar tags atualizadas">>,
                     saves |-> IF reaches THEN 1 ELSE 0,
                     tags |-> <<>>, ops |-> ops, before |-> props]
        /\ props' = IF reaches /\ io = "ok" THEN setProperties(props, properties) ELSE props
        /\ UNCHANGED <<coverVars, runVars>>
        /\ UNCHANGED <<isalnumHigh, codecVars, fileVars>>

\* -remtag names: well-known fields in several letter cases, the name of a
\* property the file may hold, a name no file holds
RemoveNames == {"artist", "Artist", "year", "TRACK", "bpm", "lyrics"}

RemoveLists == SeqsUpTo(RemoveNames, MaxRemove)

\* keys of -settag, -addtag and -pretag: a well-known field, a name of mixed case
OpKeys == {"title", "Mood"}

\* values, as the bytes of argv: plain text, and a text with the UTF-8 bytes
\* of e acute
OpValues == {" (Remix)", "[Caf@&] "}

TagOperations == [key : OpKeys, value : OpValues, mode : TagModes]

Batches == SeqsUpTo(TagOperations, MaxOps)

\* the tags of the files: none; title, artist, year and track; the same with a
\* BPM and a two-valued MOOD; a three-valued title next to a year
FileProps ==
    LET basic == [k \in {"TITLE", "ARTIST", "DATE", "TRACKNUMBER"} |->
                     IF k = "TITLE" THEN <<"Song">>
                     ELSE IF k = "ARTIST" THEN <<"Unknown">>
                     ELSE IF k = "DATE" THEN <<"1999">>
                     ELSE <<"7">>]
    IN  {NoProps,
         basic,
         [k \in DOMAIN basic \cup {"BPM", "MOOD"} |->
             IF k = "BPM" THEN <<"128">>
             ELSE IF k = "MOOD" THEN <<"calm", "dark">>
             ELSE basic[k]],
         [k \in {"TITLE", "DATE"} |->
             IF k = "TITLE" THEN <<"Song", "Song B", "Song C">> ELSE <<"2001">>]}

\* a file of a format other than MPEG with any of the tags, or an MPEG file
\* with tags that hold more than the seven fields
InitProps ==
    /\ isalnumHigh = FALSE
    /\ CodecIdle
    /\ FileIdle
    /\ format \in {"MP3", "FLAC"}
    /\ pictures = <<>>
    /\ clast = NoCoverCall
    /\ nCovers = 0
    /\ props \in (IF format = "MP3" THEN {p \in FileProps : "BPM" \in DOMAIN p} ELSE FileProps)
    /\ plast = NoEditCall
    /\ RunIdle

NextProps ==
    \/ \E tags \in RemoveLists, io \in EditIo : removeTags(tags, io)
    \/ \E io \in EditIo : removeAllTags(io)
    \/ \E ops \in Batches, io \in EditIo : applyTagOperations(ops, io)

SpecProps == InitProps /\ [][NextProps]_vars

(***************************************************************************)
(* What the claims on removal and editing are stated with.                 *)
(***************************************************************************)
\* the call logged this success line
Succeeded(op, message) == plast.op = op /\ plast.logged = <<"SUCCESS", message>>

\* the text a value of the command line stands for
ValueText(value) == IF value = "[Caf@&] " THEN "[Caf%] " ELSE value

\* the keys other than K have the value lists they had before the call
OthersUnchanged(K) ==
    /\ DOMAIN props = DOMAIN plast.before \cup {K}
    /\ \A k \in DOMAIN plast.before \ {K} : props[k] = plast.before[k]

RECURSIVE Composed(_, _, _)
\* the single value a key ends with when the operations ops are applied one
\* after the other to the key, which holds the value v if has is true and is
\* absent otherwise
Composed(has, v, ops) ==
    IF ops = <<>> THEN v
    ELSE LET o == Head(ops)
             t == ValueText(o.value)
         IN  Composed(TRUE,
                      IF ~has \/ o.mode = "SET" THEN t
                      ELSE IF o.mode = "APPEND" THEN v \o t
                      ELSE t \o v,
                      Tail(ops))

\* C13: after a removeTags that saved, every requested name that matches a
\* well-known field in some letter case and was not a key of the property view
\* (neither in upper case nor as given) names a field that is now cleared.
C13_FallbackClearStays ==
    Succeeded("removeTags", "Tags removidas")
        => \A i \in 1..Len(plast.tags) :
               LET t == plast.tags[i]
               IN  (/\ toLower(t) \in WellKnownFields
                    /\ toUpper(t) \notin DOMAIN plast.before
                    /\ t \notin DOMAIN plast.before)
                       => FieldKey(toLower(t)) \notin DOMAIN props

\* C14: after a removeAllTags that reported success the property view of the
\* file is empty.
C14_NoTagsAfterRemoveAll ==
    (plast.op = "removeAllTags" /\ plast.logged # <<>> /\ plast.logged[1] = "SUCCESS")
        => DOMAIN props = {}

\* C15: a batch that succeeded called save() once, and when all its operations
\* are on one key that was absent or had a single value, the key ends with the
\* single value obtained by applying the operations in list order, each to the
\* value the ones before it left (APPEND a then PREPEND p on v gives p + v + a).
C15_BatchComposesInOrder ==
    Succeeded("applyTagOperations", "Tags atualizadas")
        => /\ plast.saves = 1
           /\ LET ops == plast.ops
                  K == toUpper(ops[1].key)
                  has == K \in DOMAIN plast.before
              IN  (/\ \A i \in 1..Len(ops) : toUpper(ops[i].key) = K
                   /\ has => Len(plast.before[K]) = 1)
                      => props[K] = <<Composed(has, IF has THEN plast.before[K][1] ELSE "", ops)>>

\* APPEND then PREPEND on the title 'Song'
C15_Witness ==
    /\ Succeeded("applyTagOperations", "Tags atualizadas")
    /\ "TITLE" \in DOMAIN plast.before
    /\ plast.before["TITLE"] = <<"Song">>
    /\ plast.ops = <<[key |-> "title", value |-> " (Remix)", mode |-> "APPEND"],
                     [key |-> "title", value |-> "[Caf@&] ", mode |-> "PREPEND"]>>
    /\ props["TITLE"] = <<"[Caf%] Song (Remix)">>

C17_SetReplacesWholeList ==
    (Succeeded("applyTagOperations", "Tags atualizadas"))
        => LET n == Len(plast.ops)
               o == plast.ops[n]
               t == ValueText(o.value)
               written == IF toUpper(o.key) \in DOMAIN plast.before THEN toUpper(o.key)
                          ELSE IF o.key \in DOMAIN plast.before THEN o.key
                          ELSE toUpper(o.key)
           IN  o.mode = "SET"
                   => /\ props[toUpper(o.key)] = <<t>>
                      /\ n = 1 => (props[written] = <<t>> /\ OthersUnchanged(written))

\* a SET on a key with three values, and a SET of a key the file lacks
C17_Witness ==
    /\ Succeeded("applyTagOperations", "Tags atualizadas")
    /\ Len(plast.ops) = 1
    /\ plast.ops[1].mode = "SET"
    /\ \/ (plast.ops[1].key = "title" /\ "TITLE" \in DOMAIN plast.before
              /\ Len(plast.before["TITLE"]) = 3 /\ Len(props["TITLE"]) = 1)
       \/ (plast.ops[1].key = "Mood" /\ "MOOD" \notin DOMAIN plast.before
              /\ "MOOD" \in DOMAIN props)

(***************************************************************************)
(* The operation blocks of main (src/main.cpp:2850-2940): one loop over    *)
(* results per requested operation, one block after the other.             *)
(***************************************************************************)
\* largest number of files in results
MaxFiles == 2

\* mutant of BlockOrder: the edit block in front of the others
BlockOrderEditFirst ==
    <<"applyTagOperations", "writeTags", "saveMetadataFile", "embedCover", "removeCover",
      "removeTags", "output">>

\* the blocks in the order main has them, and the block after the last
BlockOrder ==
    <<"writeTags", "saveMetadataFile", "embedCover", "removeCover", "removeTags",
      "applyTagOperations", "output">>

\* the position of a block in main
BlockIndex(b) == CHOOSE i \in 1..Len(BlockOrder) : BlockOrder[i] = b

\* the condition of the `if` around the loop of a block
BlockRuns(a, b) ==
    /\ ~a.listMode
    /\ IF b = "writeTags" THEN a.tagsToWrite
       ELSE IF b = "saveMetadataFile" THEN a.meta
       ELSE IF b = "embedCover" THEN a.coverPath
       ELSE IF b = "removeCover" THEN a.removeCover
       ELSE IF b = "removeTags" THEN a.removeAllTags \/ a.tagsToRemove
       ELSE IF b = "applyTagOperations" THEN a.tagOps
       ELSE FALSE

\* mutant of Callee: the removal block calls removeTags whatever was asked
CalleeIsBlock(a, b) == b

\* the function the loop of a block calls: the removal block calls
\* removeAllTags when -remalltag is given and removeTags otherwise
Callee(a, b) == IF b = "removeTags" /\ a.removeAllTags THEN "removeAllTags" ELSE b

\* what a call can meet on its file
CallIo == {"ok", "openFails", "saveFails", "throws"}

\* mutant of Escapes: an exception of the tag library leaves the function
EscapesWhenThrown(io) == io = "throws"

\* whether a failure leaves the called function as an exception: the
\* functions return when the file does not open, log when save() returns
\* false, and catch std::exception around everything they do with the file
Escapes(io) == FALSE

\* mutant of CurrentFile: the loop walks results from its end
LastFileFirst == nFiles - idx

\* the element of results the range-for of the current block is at
CurrentFile == idx + 1

\* one call of the loop of the current block, on the next file of results
Call(op, io) ==
    /\ stage # "output"
    /\ BlockRuns(args, stage)
    /\ idx < nFiles
    /\ op = Callee(args, stage)
    /\ trace' = [trace EXCEPT ![CurrentFile] = Append(@, op)]
    /\ failed' = IF io = "ok" THEN failed ELSE failed \cup {CurrentFile}
    /\ IF Escapes(io)
       THEN stage' = "terminated" /\ idx' = idx
       ELSE stage' = stage /\ idx' = idx + 1
    /\ UNCHANGED <<args, nFiles, mainVars>>
    /\ UNCHANGED <<coverVars, propVars>>
    /\ UNCHANGED <<isalnumHigh, codecVars, fileVars>>

\* the end of a block, or a block whose condition is false: on to the next
NextBlock ==
    /\ nFiles > 0
    /\ stage \notin {"start", "scan", "output", "returned", "terminated"}
    /\ ~BlockRuns(args, stage) \/ idx = nFiles
    /\ stage' = BlockOrder[BlockIndex(stage) + 1]
    /\ idx' = 0
    /\ UNCHANGED <<args, nFiles, trace, failed, mainVars>>
    /\ UNCHANGED <<coverVars, propVars>>
    /\ UNCHANGED <<isalnumHigh, codecVars, fileVars>>

\* `if (results.empty()) { ...; return 0; }` in front of the blocks
NoResults ==
    /\ nFiles = 0
    /\ stage = BlockOrder[1]
    /\ stage' = "returned"
    /\ UNCHANGED <<args, nFiles, idx, trace, failed, mainVars>>
    /\ UNCHANGED <<coverVars, propVars>>
    /\ UNCHANGED <<isalnumHigh, codecVars, fileVars>>

RunArgs ==
    [listMode : BOOLEAN, tagsToWrite : BOOLEAN, meta : BOOLEAN, coverPath : BOOLEAN,
     removeCover : BOOLEAN, removeAllTags : BOOLEAN, tagsToRemove : BOOLEAN,
     tagOps : BOOLEAN]

\* main in front of its first block, with any request and any number of results
InitRun ==
    /\ isalnumHigh = FALSE
    /\ CodecIdle
    /\ FileIdle
    /\ CoverIdle
    /\ PropsIdle
    /\ MainIdle
    /\ args \in RunArgs
    /\ nFiles \in 0..MaxFiles
    /\ stage = BlockOrder[1]
    /\ idx = 0
    /\ trace = [i \in 1..nFiles |-> <<>>]
    /\ failed = {}

NextRun ==
    \/ \E io \in CallIo : Call("writeTags", io)
    \/ \E io \in CallIo : Call("saveMetadataFile", io)
    \/ \E io \in CallIo : Call("embedCover", io)
    \/ \E io \in CallIo : Call("removeCover", io)
    \/ \E io \in CallIo : Call("removeAllTags", io)
    \/ \E io \in CallIo : Call("removeTags", io)
    \/ \E io \in CallIo : Call("applyTagOperations", io)
    \/ NextBlock
    \/ NoResults

SpecRun == InitRun /\ [][NextRun]_vars

\* main is one sequential program: it takes its next step as long as it has one
SpecRunLive == SpecRun /\ WF_vars(NextRun)

\* the rank of an operation kind in the order of the claim
KindRank(op) ==
    IF op = "writeTags" THEN 1
    ELSE IF op = "embedCover" THEN 2
    ELSE IF op = "removeCover" THEN 3
    ELSE IF op \in {"removeAllTags", "removeTags"} THEN 4
    ELSE 5

\* the five kinds of tag operation
TagOps == {"writeTags", "embedCover", "removeCover", "removeAllTags", "removeTags",
           "applyTagOperations"}

\* the operations a run is asked to apply: those given on the command line
\* of a run that is not in list mode, removeTags giving way to removeAllTags
RequestedOps(a) ==
    IF a.listMode THEN {}
    ELSE {op \in TagOps :
             \/ op = "writeTags" /\ a.tagsToWrite
             \/ op = "embedCover" /\ a.coverPath
             \/ op = "removeCover" /\ a.removeCover
             \/ op = "removeAllTags" /\ a.removeAllTags
             \/ op = "removeTags" /\ a.tagsToRemove /\ ~a.removeAllTags
             \/ op = "applyTagOperations" /\ a.tagOps}

\* the run is over
Finished == stage \in {"output", "returned"}

\* C19: on every file the operations were called in the order writeTags,
\* embedCover, removeCover, removeAllTags or removeTags, applyTagOperations.
C19_OperationsInFixedOrder ==
    \A i \in DOMAIN trace :
        \A j, k \in 1..Len(trace[i]) :
            (j < k /\ trace[i][j] \in TagOps /\ trace[i][k] \in TagOps)
                => KindRank(trace[i][j]) < KindRank(trace[i][k])

\* a finished run with two files and all five kinds on the second file
C19_Witness ==
    /\ stage = "output"
    /\ nFiles = 2
    /\ Cardinality({KindRank(trace[2][j]) : j \in {j \in 1..Len(trace[2]) : trace[2][j] \in TagOps}}) = 5

\* C20: the run ends, and when it has ended every file of results has been
\* given to every requested operation once, whatever failed on any file.
C20_EveryFileAttempted ==
    /\ <>Finished
    /\ [](Finished =>
            \A i \in 1..nFiles : \A op \in RequestedOps(args) :
                Cardinality({j \in 1..Len(trace[i]) : trace[i][j] = op}) = 1)

\* a finished run in which calls failed on the first file and the second
\* file was given to three operations
C20_Witness ==
    /\ stage = "output"
    /\ nFiles = 2
    /\ 1 \in failed
    /\ Cardinality(RequestedOps(args)) >= 3
    /\ \A op \in RequestedOps(args) : \E j \in 1..Len(trace[2]) : trace[2][j] = op

(***************************************************************************)
(* The album text over repeated writes, and the empty leading segment.     *)
(***************************************************************************)
\* the write the step makes is a saved force write
ForceWrite == last'.outcome = "saved" /\ last'.force

(***************************************************************************)
(* C23. On a file whose Album did not begin with a ' | '-terminated        *)
(* segment of alphanumerics, '.' or '#' before the first call, every       *)
(* writeTags call without force leaves an Album that ends with that        *)
(* original text: an Album that ends with it before the call ends with it  *)
(* after the call.                                                         *)
(***************************************************************************)
C23_OriginalAlbumSurvives ==
    [][(/\ ~BeginsWithPrefixSegment(album0)
        /\ IsSuffix(album0, album)
        /\ ~ForceWrite) => IsSuffix(album0, album')]_vars

\* the album text begins with the delimiter: its leading segment is empty
BeginsWithDelim(s) == Len(s) >= Len(Delim) /\ SubSeq(s, 1, Len(Delim)) = Delim

(***************************************************************************)
(* C24. cleanAlbumPrefix returns an album text that begins with ' | ',     *)
(* whose leading segment is empty, as it was given.                        *)
(***************************************************************************)
C24_EmptySegmentKept ==
    (cpc = "stripped" /\ BeginsWithDelim(cleanIn)) => cleanOut = cleanIn

(***************************************************************************)
(* C28. After a successful embedCover on MP3, WAV, AIFF, FLAC or MP4 the   *)
(* file holds exactly one embedded picture in all, the front cover the     *)
(* call built: every picture it held before, of whatever type, is gone.    *)
(***************************************************************************)
C28_OnePictureInTotal ==
    (clast.op = "embedCover" /\ clast.saved /\ format \in BranchFormats)
        => /\ Len(pictures) = 1
           /\ pictures[1] = Picture("FrontCover", MimeTypeOf(clast.imagePath), clast.imgData)

\* a successful embed on a file that held a back cover next to a front cover
C28_Witness ==
    /\ clast.op = "embedCover" /\ clast.saved
    /\ format \in {"MP3", "FLAC", "WAV", "AIFF"}
    /\ Len(clast.before) = 2
    /\ clast.before[1].type = "BackCover"
    /\ Len(pictures) = 1

(***************************************************************************)
(* Calls that find nothing to do, and what a success line stands for.      *)
(***************************************************************************)
\* no name of tags is a key of the property view pm, as given or upper-cased,
\* and none is the name of a well-known field in any letter case
NoneMatches(pm, tags) ==
    \A i \in 1..Len(tags) :
        /\ ~PMcontains(pm, toUpper(tags[i]))
        /\ ~PMcontains(pm, tags[i])
        /\ toLower(tags[i]) \notin WellKnownFields

(***************************************************************************)
(* C25. A removeTags call that opens the file, meets no exception of the   *)
(* tag library, and is given only names that are neither a key of the      *)
(* property view nor a well-known field, does not call save(): the tag is  *)
(* as it was before the call and no line is logged, so no failure is       *)
(* reported.                                                               *)
(***************************************************************************)
C25_NoMatchNoCommit ==
    (plast.op = "removeTags" /\ plast.io # "throws" /\ NoneMatches(plast.before, plast.tags))
        => /\ plast.saves = 0
           /\ props = plast.before
           /\ plast.logged = <<>>

\* two names that match nothing, on a file that has tags but no BPM
C25_Witness ==
    /\ plast.op = "removeTags"
    /\ plast.io \in {"ok", "saveFails"}
    /\ Len(plast.tags) = 2
    /\ plast.tags[1] # plast.tags[2]
    /\ NoneMatches(plast.before, plast.tags)
    /\ DOMAIN plast.before # {}
    /\ props = plast.before

(***************************************************************************)
(* C30. A removeTags, removeAllTags or applyTagOperations call logs a      *)
(* SUCCESS line only when its commit succeeded: a save() or a native       *)
(* strip() that returns false never comes with a SUCCESS line.             *)
(***************************************************************************)
C30_SuccessMeansCommitted ==
    (plast.op # "none" /\ plast.logged # <<>> /\ plast.logged[1] = "SUCCESS")
        => plast.io = "ok"

(***************************************************************************)
(* The order of the calls over the files of a run.                         *)
(***************************************************************************)
\* the tag operations among the calls made on a file
TagCalls(calls) == SelectSeq(calls, LAMBDA op : op \in TagOps)

\* the sequence t is the beginning of the sequence s
IsPrefixOf(t, s) == Len(t) <= Len(s) /\ SubSeq(s, 1, Len(t)) = t

(***************************************************************************)
(* C22 as stated: when a tag operation has been called on a file, every    *)
(* requested tag operation has been called on each file in front of it.    *)
(***************************************************************************)
C22_FileByFile ==
    \A i, j \in 1..nFiles :
        (i < j /\ TagCalls(trace[j]) # <<>>)
            => \A op \in RequestedOps(args) : \E k \in 1..Len(trace[i]) : trace[i][k] = op

(***************************************************************************)
(* C22 amended: the run goes operation by operation. The calls made on a   *)
(* file are the beginning of the calls made on each file in front of it,   *)
(* which is at most one call ahead: an operation is called on a file after *)
(* its call on the file before has returned, and the next kind of          *)
(* operation starts on the first file after the current kind has been      *)
(* called on the last.                                                     *)
(***************************************************************************)
C22_BlockByBlock ==
    \A i, j \in 1..nFiles :
        i < j => /\ IsPrefixOf(trace[j], trace[i])
                 /\ Len(trace[i]) <= Len(trace[j]) + 1

\* the second kind of operation has reached the first of two files while the
\* second file has had the first kind only
C22_Witness ==
    /\ nFiles = 2
    /\ Len(TagCalls(trace[1])) = 2
    /\ Len(TagCalls(trace[2])) = 1
    /\ Cardinality(RequestedOps(args)) >= 2

(***************************************************************************)
(* C26. In a run that asks for the removal of all tags and for the removal *)
(* of named tags, removeTags is called on no file, and when the run has    *)
(* ended removeAllTags has been called once on every file.                 *)
(***************************************************************************)
C26_RemoveAllWins ==
    (args.removeAllTags /\ args.tagsToRemove)
        => \A i \in 1..nFiles :
               /\ \A k \in 1..Len(trace[i]) : trace[i][k] # "removeTags"
               /\ (stage = "output" /\ ~args.listMode)
                      => Cardinality({k \in 1..Len(trace[i]) : trace[i][k] = "removeAllTags"}) = 1

\* a finished run that asked for both, over two files
C26_Witness ==
    /\ stage = "output"
    /\ args.removeAllTags /\ args.tagsToRemove
    /\ nFiles = 2
    /\ \E k \in 1..Len(trace[2]) : trace[2][k] = "removeAllTags"

(***************************************************************************)
(* main from the file list to the end of the blocks, with the FileRef of   *)
(* every function and the outcome lines of every call                      *)
(* (src/main.cpp:2710-2940).                                               *)
(***************************************************************************)
\* largest number of files findFiles returns
MaxScan == 2

\* largest value of -limit
MaxLimit == 1

\* largest number of requests on the command line of a run
MaxKinds == 2

\* a file of the list: whether amalyzer.analyze succeeds on it and whether it
\* passes the BPM, size and key filters
FileFates == [analyzes : BOOLEAN, passes : BOOLEAN]

FoundFiles == UNION {[1..n -> FileFates] : n \in 0..MaxScan}

\* `if (files.empty()) { ...; return 0; }`
NoFiles ==
    /\ stage = "start"
    /\ files = <<>>
    /\ stage' = "returned"
    /\ UNCHANGED <<args, nFiles, idx, trace, failed, mainVars>>
    /\ UNCHANGED <<coverVars, propVars>>
    /\ UNCHANGED <<isalnumHigh, codecVars, fileVars>>

\* files.resize(args.limit) when a limit is given and the list is longer
CutLimit ==
    /\ stage = "start"
    /\ files # <<>>
    /\ files' = IF limit > 0 /\ Len(files) > limit THEN SubSeq(files, 1, limit) ELSE files
    /\ stage' = "scan"
    /\ UNCHANGED <<args, nFiles, idx, trace, failed>>
    /\ UNCHANGED <<found, limit, results, scanned, handles, inCall, lines>>
    /\ UNCHANGED <<coverVars, propVars>>
    /\ UNCHANGED <<isalnumHigh, codecVars, fileVars>>

\* mutant of Released: an exception leaves the FileRef alive
ReleasedUnlessThrown(io) == IF io = "throws" THEN 0 ELSE 1

\* the number of FileRef objects destroyed when control leaves the block the
\* FileRef is a local of: by a return, at the end of the block, or by an
\* exception on its way to the catch
Released(io) == 1

\* `TagLib::FileRef f(fpath.c_str());` in the loop of main over files
OpenMetadata ==
    /\ stage = "scan"
    /\ scanned < Len(files)
    /\ inCall = "none"
    /\ handles' = handles + 1
    /\ inCall' = "main"
    /\ UNCHANGED <<args, nFiles, stage, idx, trace, failed>>
    /\ UNCHANGED <<files, found, limit, results, scanned, lines>>
    /\ UNCHANGED <<coverVars, propVars>>
    /\ UNCHANGED <<isalnumHigh, codecVars, fileVars>>

\* mutant of Keep: every file of the list goes to results
KeepAll(a, f) == TRUE

\* res.success and keep of the loop of main: list mode makes no analysis
Keep(a, f) == (a.listMode \/ f.analyzes) /\ f.passes

\* the rest of the pass of the loop: the tags are read or an exception is
\* caught, the FileRef goes, the file is analysed and filtered
ScanFile(io) ==
    LET k == scanned + 1
        keep == Keep(args, files[k])
    IN  /\ stage = "scan"
        /\ inCall = "main"
        /\ handles' = handles - Released(io)
        /\ inCall' = "none"
        /\ results' = IF keep THEN Append(results, k) ELSE results
        /\ trace' = IF keep THEN Append(trace, <<>>) ELSE trace
        /\ lines' = IF keep THEN Append(lines, 0) ELSE lines
        /\ nFiles' = Len(results')
        /\ scanned' = k
        /\ UNCHANGED <<args, stage, idx, failed, files, found, limit>>
        /\ UNCHANGED <<coverVars, propVars>>
        /\ UNCHANGED <<isalnumHigh, codecVars, fileVars>>

\* the end of the loop over files
EndScan ==
    /\ stage = "scan"
    /\ scanned = Len(files)
    /\ stage' = BlockOrder[1]
    /\ UNCHANGED <<args, nFiles, idx, trace, failed, mainVars>>
    /\ UNCHANGED <<coverVars, propVars>>
    /\ UNCHANGED <<isalnumHigh, codecVars, fileVars>>

\* the functions that open a FileRef
RefOps == {"writeTags", "embedCover", "removeCover", "removeAllTags", "removeTags",
           "applyTagOperations"}

\* the ways a function returns in front of its FileRef: writeTags on an
\* analysis without result or on a request without parts, embedCover without
\* the image file, saveMetadataFile, which opens no FileRef, with or without
\* its output file
EarlyOutcomes(op) ==
    IF op = "writeTags" THEN {"nothingToDo"}
    ELSE IF op = "embedCover" THEN {"noImage"}
    ELSE IF op = "saveMetadataFile" THEN {"ok", "saveFails"}
    ELSE {}

\* the ways a function returns behind its FileRef
RefOutcomes(op) ==
    {"ok", "openFails", "saveFails", "throws"}
        \cup (IF op = "embedCover" THEN {"imageUnreadable", "unsupported"}
              ELSE IF op = "removeCover" THEN {"nothingToDo", "unsupported"}
              ELSE IF op = "removeAllTags" THEN {"stripFails"}
              ELSE IF op = "removeTags" THEN {"nothingToDo"}
              ELSE {})

\* the number of SUCCESS, WARNING and ERROR lines a call logs
OutcomeLines(op, io) ==
    IF io \in {"throws", "noImage", "stripFails"} THEN 1
    ELSE IF io = "ok" THEN (IF op = "saveMetadataFile" THEN 0 ELSE 1)
    ELSE IF io = "openFails" THEN (IF op = "writeTags" THEN 1 ELSE 0)
    ELSE IF io = "unsupported" THEN (IF op = "embedCover" THEN 1 ELSE 0)
    ELSE IF io = "saveFails" THEN (IF op \in {"removeCover", "removeAllTags"} THEN 0 ELSE 1)
    ELSE 0

\* the call of the loop of the current block is due
CallDue(op) ==
    /\ BlockRuns(args, stage)
    /\ idx < nFiles
    /\ op = Callee(args, stage)
    /\ inCall = "none"

\* a call that returns in front of its FileRef
ReturnEarly(op, io) ==
    /\ CallDue(op)
    /\ io \in EarlyOutcomes(op)
    /\ trace' = [trace EXCEPT ![CurrentFile] = Append(@, op)]
    /\ lines' = [lines EXCEPT ![CurrentFile] = @ + OutcomeLines(op, io)]
    /\ failed' = IF io = "ok" THEN failed ELSE failed \cup {CurrentFile}
    /\ idx' = idx + 1
    /\ UNCHANGED <<args, nFiles, stage>>
    /\ UNCHANGED <<files, found, limit, results, scanned, handles, inCall>>
    /\ UNCHANGED <<coverVars, propVars>>
    /\ UNCHANGED <<isalnumHigh, codecVars, fileVars>>

\* `TagLib::FileRef f(...)` at the head of the try block of the function
OpenRef(op) ==
    /\ CallDue(op)
    /\ op \in RefOps
    /\ handles' = handles + 1
    /\ inCall' = op
    /\ UNCHANGED <<args, nFiles, stage, idx, trace, failed>>
    /\ UNCHANGED <<files, found, limit, results, scanned, lines>>
    /\ UNCHANGED <<coverVars, propVars>>
    /\ UNCHANGED <<isalnumHigh, codecVars, fileVars>>

\* the function leaves its try block: by a return, at its end, or through
\* its catch
Return(op, io) ==
    /\ inCall = op
    /\ op \in RefOps
    /\ io \in RefOutcomes(op)
    /\ handles' = handles - Released(io)
    /\ inCall' = "none"
    /\ trace' = [trace EXCEPT ![CurrentFile] = Append(@, op)]
    /\ lines' = [lines EXCEPT ![CurrentFile] = @ + OutcomeLines(op, io)]
    /\ failed' = IF io = "ok" THEN failed ELSE failed \cup {CurrentFile}
    /\ idx' = idx + 1
    /\ UNCHANGED <<args, nFiles, stage>>
    /\ UNCHANGED <<files, found, limit, results, scanned>>
    /\ UNCHANGED <<coverVars, propVars>>
    /\ UNCHANGED <<isalnumHigh, codecVars, fileVars>>

\* the requests of a command line
RequestFlags ==
    {"tagsToWrite", "meta", "coverPath", "removeCover", "removeAllTags", "tagsToRemove",
     "tagOps"}

\* command lines with up to MaxKinds requests, in list mode or not
MainArgs == {a \in RunArgs : Cardinality({f \in RequestFlags : a[f]}) <= MaxKinds}

\* main behind findFiles
InitMain ==
    /\ isalnumHigh = FALSE
    /\ CodecIdle
    /\ FileIdle
    /\ CoverIdle
    /\ PropsIdle
    /\ args \in MainArgs
    /\ files \in FoundFiles
    /\ found = Len(files)
    /\ limit \in 0..MaxLimit
    /\ results = <<>>
    /\ scanned = 0
    /\ handles = 0
    /\ inCall = "none"
    /\ lines = <<>>
    /\ nFiles = 0
    /\ stage = "start"
    /\ idx = 0
    /\ trace = <<>>
    /\ failed = {}

NextMain ==
    \/ NoFiles
    \/ CutLimit
    \/ OpenMetadata
    \/ \E io \in {"ok", "throws"} : ScanFile(io)
    \/ EndScan
    \/ NoResults
    \/ \E op \in RefOps \cup {"saveMetadataFile"} : \E io \in EarlyOutcomes(op) : ReturnEarly(op, io)
    \/ \E op \in RefOps : OpenRef(op)
    \/ \E op \in RefOps : \E io \in RefOutcomes(op) : Return(op, io)
    \/ NextBlock

SpecMain == InitMain /\ [][NextMain]_vars

(***************************************************************************)
(* C21 as stated: when a run that asked for an operation has ended, one    *)
(* outcome line has been logged for every file of its results: not none,   *)
(* not several.                                                            *)
(***************************************************************************)
C21_OneOutcomeLine ==
    (stage = "output" /\ RequestedOps(args) # {})
        => \A i \in 1..nFiles : lines[i] = 1

(***************************************************************************)
(* C27. At most one FileRef is alive at any point of a run, it is the one  *)
(* of the function that is running, and none is alive between the calls:  *)
(* a function that returns, on whatever path, has released its own.        *)
(***************************************************************************)
C27_OneHandleAtATime ==
    /\ handles <= 1
    /\ (inCall = "none") <=> (handles = 0)

\* the end of a run over two files in which a call on the first file met a
\* failure and calls on the second file followed
C27_Witness ==
    /\ stage = "output"
    /\ nFiles = 2
    /\ 1 \in failed
    /\ TagCalls(trace[2]) # <<>>
    /\ handles = 0

(***************************************************************************)
(* C29. A tag operation is called only in a run that is not in list mode,  *)
(* and only on a file that lies within the -limit cut, whose analysis      *)
(* succeeded and that passed the filters.                                  *)
(***************************************************************************)
C29_OnlyKeptFilesMutated ==
    \A i \in 1..nFiles :
        TagCalls(trace[i]) # <<>>
            => /\ ~args.listMode
               /\ results[i] \in 1..Len(files)
               /\ (limit > 0 => results[i] <= limit)
               /\ files[results[i]].analyzes
               /\ files[results[i]].passes

\* the end of a run over two files, the first of which failed its analysis:
\* the operations went to the second only
C29_Witness ==
    /\ stage = "output"
    /\ ~args.listMode
    /\ Len(files) = 2
    /\ ~files[1].analyzes
    /\ results = <<2>>
    /\ TagCalls(trace[1]) # <<>>

====
